---------------------------- MODULE Spec2Model ----------------------------
(***************************************************************************)
(* A model of enviro.py, the Munin plugin that samples the Enviro+ sensors *)
(* and prints either the plugin's configuration or the sampled values.     *)
(*                                                                         *)
(* The process is modelled one I/O event at a time: every sensor read,     *)
(* every time.sleep and every print is one step.  `out` is what has been   *)
(* written to stdout, `ops` the reads and sleeps performed so far.         *)
(*                                                                         *)
(* Numbers are Python floats, computed with their rounding.                 *)
(***************************************************************************)
EXTENDS Integers, Sequences, FiniteSets, TLC

(***************************************************************************)
(* Natural numbers of any size, as little-endian sequences of limbs in     *)
(* base 2^15 with no leading zero limb (0 is <<>>): the 53-bit significands *)
(* of Python's floats do not fit TLC's integers.                           *)
(***************************************************************************)
Base == 32768

LimbBits == 15

Abs(n) == IF n < 0 THEN -n ELSE n

RECURSIVE Pow2(_)
Pow2(n) == IF n = 0 THEN 1 ELSE 2 * Pow2(n - 1)

RECURSIVE BTrim(_)
BTrim(a) == IF a # <<>> /\ a[Len(a)] = 0 THEN BTrim(SubSeq(a, 1, Len(a) - 1)) ELSE a

RECURSIVE BFromInt(_)
BFromInt(n) == IF n = 0 THEN <<>> ELSE <<n % Base>> \o BFromInt(n \div Base)

RECURSIVE BToInt(_)
BToInt(a) == IF a = <<>> THEN 0 ELSE Head(a) + Base * BToInt(Tail(a))

Limb(a, i) == IF i <= Len(a) THEN a[i] ELSE 0

RECURSIVE BAddFrom(_, _, _, _)
BAddFrom(a, b, i, carry) ==
    IF i > Len(a) /\ i > Len(b)
    THEN IF carry = 0 THEN <<>> ELSE <<carry>>
    ELSE LET t == Limb(a, i) + Limb(b, i) + carry
         IN  <<t % Base>> \o BAddFrom(a, b, i + 1, t \div Base)

BAdd(a, b) == BAddFrom(a, b, 1, 0)

RECURSIVE BSubFrom(_, _, _, _)
BSubFrom(a, b, i, borrow) ==
    IF i > Len(a) THEN <<>>
    ELSE LET t == Limb(a, i) - Limb(b, i) - borrow
         IN  <<(t + Base) % Base>> \o BSubFrom(a, b, i + 1, IF t < 0 THEN 1 ELSE 0)

\* a - b, for a >= b
BSub(a, b) == BTrim(BSubFrom(a, b, 1, 0))

RECURSIVE BCmpFrom(_, _, _)
BCmpFrom(a, b, i) ==
    IF i = 0 THEN 0
    ELSE IF a[i] # b[i] THEN (IF a[i] < b[i] THEN -1 ELSE 1)
    ELSE BCmpFrom(a, b, i - 1)

\* -1, 0 or 1 as a < b, a = b or a > b
BCmp(a, b) ==
    IF Len(a) # Len(b) THEN (IF Len(a) < Len(b) THEN -1 ELSE 1)
    ELSE BCmpFrom(a, b, Len(a))

RECURSIVE BMulSmallFrom(_, _, _, _)
BMulSmallFrom(a, k, i, carry) ==
    IF i > Len(a)
    THEN BFromInt(carry)
    ELSE LET t == a[i] * k + carry
         IN  <<t % Base>> \o BMulSmallFrom(a, k, i + 1, t \div Base)

\* a * k, for 0 <= k <= Base
BMulSmall(a, k) == BTrim(BMulSmallFrom(a, k, 1, 0))

RECURSIVE BDivSmallFrom(_, _, _, _)
\* the quotient's limbs from limb i down, most significant first, then the remainder
BDivSmallFrom(a, k, i, r) ==
    IF i = 0 THEN <<<<>>, r>>
    ELSE LET t    == r * Base + a[i]
             rest == BDivSmallFrom(a, k, i - 1, t % k)
         IN  <<Append(rest[1], t \div k), rest[2]>>

DivTrim(qr) == <<BTrim(qr[1]), qr[2]>>

\* <<a \div k, a % k>>, for 0 < k <= Base
BDivSmall(a, k) == DivTrim(BDivSmallFrom(a, k, Len(a), 0))

\* a * 2^n
BShl(a, n) ==
    IF a = <<>> THEN <<>>
    ELSE [i \in 1..(n \div LimbBits) |-> 0] \o BMulSmall(a, Pow2(n % LimbBits))

\* the quotient of the high limbs, and whether anything was shifted out
ShrParts(low, qr) == <<qr[1], qr[2] # 0 \/ \E i \in 1..Len(low) : low[i] # 0>>

\* <<a \div 2^n, whether a % 2^n # 0>>
BShr(a, n) ==
    ShrParts(SubSeq(a, 1, IF n \div LimbBits < Len(a) THEN n \div LimbBits ELSE Len(a)),
             BDivSmall(SubSeq(a, n \div LimbBits + 1, Len(a)), Pow2(n % LimbBits)))

RECURSIVE IntBitLen(_)
IntBitLen(n) == IF n = 0 THEN 0 ELSE 1 + IntBitLen(n \div 2)

BBitLen(a) == IF a = <<>> THEN 0 ELSE (Len(a) - 1) * LimbBits + IntBitLen(a[Len(a)])

BOdd(a) == a # <<>> /\ a[1] % 2 = 1

RECURSIVE BMulFrom(_, _, _)
BMulFrom(a, b, i) ==
    IF i > Len(b) THEN <<>>
    ELSE BAdd([j \in 1..(i - 1) |-> 0] \o BMulSmall(a, b[i]), BMulFrom(a, b, i + 1))

BMul(a, b) == BTrim(BMulFrom(a, b, 1))

(***************************************************************************)
(* Python's float: an IEEE 754 binary64 number <<s, m, e>> of value        *)
(* s * m * 2^e, with s in {1, -1} and m odd and below 2^53 (zero is        *)
(* <<1, <<>>, 0>>).  Every operation rounds its exact result to the        *)
(* nearest such number, ties to even.  Infinities, NaN, subnormals and the *)
(* sign of zero are not modelled: the values here stay far from them.      *)
(***************************************************************************)
Precision == 53

FZero == <<1, <<>>, 0>>

RECURSIVE TrailingZeros(_)
TrailingZeros(n) == IF n % 2 = 1 THEN 0 ELSE 1 + TrailingZeros(n \div 2)

RECURSIVE ZeroLimbs(_, _)
ZeroLimbs(a, i) == IF a[i] # 0 THEN i - 1 ELSE ZeroLimbs(a, i + 1)

\* the number of trailing zero bits of a # <<>>, given its zero limbs
TrailingZeroBits(a, z) == z * LimbBits + TrailingZeros(a[z + 1])

CanonBy(s, m, e, tz) == <<s, BShr(m, tz)[1], e + tz>>

\* s * m * 2^e with m made odd
Canon(s, m, e) ==
    IF m = <<>> THEN FZero
    ELSE CanonBy(s, m, e, TrailingZeroBits(m, ZeroLimbs(m, 1)))

\* q * 2^e, one more if the bits dropped were more than half of the last
\* place, or exactly half with q odd
RoundUp(s, q, e, half, inexact) ==
    Canon(s, IF half /\ (inexact \/ BOdd(q)) THEN BAdd(q, <<1>>) ELSE q, e)

\* q1 holds one bit more than the 53 kept, and whether lower bits were dropped
RoundOff(s, q1, e, sticky) ==
    RoundUp(s, BShr(q1[1], 1)[1], e, BOdd(q1[1]), q1[2] \/ sticky)

RoundBits(s, m, e, sticky, len) ==
    IF len <= Precision THEN Canon(s, m, e)
    ELSE RoundOff(s, BShr(m, len - Precision - 1), e + len - Precision, sticky)

\* s * m * 2^e rounded to 53 bits; `sticky` says that the exact value lies
\* strictly between m * 2^e and (m + 1) * 2^e
RoundSticky(s, m, e, sticky) == RoundBits(s, m, e, sticky, BBitLen(m))

Round(s, m, e) == RoundSticky(s, m, e, FALSE)

\* float(n) of a Python int
F(n) == Canon(IF n < 0 THEN -1 ELSE 1, BFromInt(Abs(n)), 0)

FNeg(x) == IF x[2] = <<>> THEN x ELSE <<-x[1], x[2], x[3]>>

FMinExp(x, y) == IF x[3] < y[3] THEN x[3] ELSE y[3]

\* significands of opposite signs on a common exponent, c their comparison
AddOpposite(sx, mx, sy, my, e0, c) ==
    IF c = 0 THEN FZero
    ELSE Round(IF c > 0 THEN sx ELSE sy,
               IF c > 0 THEN BSub(mx, my) ELSE BSub(my, mx), e0)

\* significands on a common exponent
AddAligned(sx, mx, sy, my, e0) ==
    IF sx = sy THEN Round(sx, BAdd(mx, my), e0)
    ELSE AddOpposite(sx, mx, sy, my, e0, BCmp(mx, my))

\* x + y
FAdd(x, y) ==
    IF x[2] = <<>> THEN y
    ELSE IF y[2] = <<>> THEN x
    ELSE AddAligned(x[1], BShl(x[2], x[3] - FMinExp(x, y)),
                    y[1], BShl(y[2], y[3] - FMinExp(x, y)), FMinExp(x, y))

\* x - y
FSub(x, y) == FAdd(x, FNeg(y))

\* x * y
FMul(x, y) == Round(x[1] * y[1], BMul(x[2], y[2]), x[3] + y[3])

DivRound(s, qr, e) == RoundSticky(s, qr[1], e, qr[2] # 0)

\* x / y, for a divisor whose odd significand is one limb: the divisors of
\* enviro.py are 2.25, 5, 1000, 1000.0 and float(len(values))
FDiv(x, y) ==
    IF x[2] = <<>> THEN FZero
    ELSE DivRound(x[1] * y[1], BDivSmall(BShl(x[2], 64), y[2][1]), x[3] - 64 - y[3])

\* numbers of sign s whose magnitudes compare as c
LtMagnitude(s, c) == IF s = 1 THEN c < 0 ELSE c > 0

\* x < y
FLt(x, y) ==
    IF x[1] # y[1] THEN x[1] < y[1] /\ (x[2] # <<>> \/ y[2] # <<>>)
    ELSE LtMagnitude(x[1], BCmp(BShl(x[2], x[3] - FMinExp(x, y)),
                                BShl(y[2], y[3] - FMinExp(x, y))))

FLe(x, y) == ~FLt(y, x)

\* Python's min(a, b): b when b < a, else a
FMin(a, b) == IF FLt(b, a) THEN b ELSE a

\* whether x is a whole number
FIsInt(x) == x[3] >= 0

(***************************************************************************)
(* '{:.8f}'.format(x): sign, integer part, '.', eight decimals, the exact  *)
(* value rounded half-to-even.                                             *)
(***************************************************************************)
RECURSIVE ZeroPad(_, _)
ZeroPad(s, width) == IF Len(s) >= width THEN s ELSE ZeroPad("0" \o s, width)

\* sign, integer part ip and the fraction f1 in units of 10^-8
FormatRounded(s, ip, f1) ==
    (IF s < 0 THEN "-" ELSE "")
        \o ToString(BToInt(ip) + (IF f1 = 100000000 THEN 1 ELSE 0))
        \o "." \o ZeroPad(ToString(IF f1 = 100000000 THEN 0 ELSE f1), 8)

\* f holds the fraction in units of 10^-8
FormatUp(s, ip, f, half, inexact) ==
    FormatRounded(s, ip, BToInt(f) + (IF half /\ (inexact \/ BOdd(f)) THEN 1 ELSE 0))

\* q1 holds the fraction in units of 10^-8 / 2, and whether bits were dropped
FormatFraction(s, ip, q1) == FormatUp(s, ip, BShr(q1[1], 1)[1], BOdd(q1[1]), q1[2])

\* the number is m / 2^k, its integer part ip
FormatParts(s, m, k, ip) ==
    FormatFraction(s, ip,
        BShr(BShl(BMulSmall(BMulSmall(BSub(m, BShl(ip, k)), 10000), 10000), 1), k))

FormatScaled(s, m, k) == FormatParts(s, m, k, BShr(m, k)[1])

Format8f(x) ==
    FormatScaled(x[1], BShl(x[2], IF x[3] > 0 THEN x[3] ELSE 0),
                 IF x[3] < 0 THEN -x[3] ELSE 0)

(***************************************************************************)
(* avg and the two calibration formulas.                                   *)
(***************************************************************************)
RECURSIVE SumFrom(_, _)
SumFrom(acc, values) ==
    IF values = <<>> THEN acc ELSE SumFrom(FAdd(acc, Head(values)), Tail(values))

\* Python's sum(values): starts from 0 and adds from the left
Sum(values) == SumFrom(F(0), values)

avg(values) == FDiv(Sum(values), F(Len(values)))

\* the literal 2.25 = 9 * 2^-2
correct_temperature(temperature, cpu_temperature) ==
    FSub(temperature, FDiv(FSub(cpu_temperature, temperature), <<1, <<9>>, -2>>))

\* correct_humidity without the cap at 100
correct_humidity_uncapped(humidity, temperature, corr_temperature) ==
    LET dewpoint == FSub(temperature, FDiv(FSub(F(100), humidity), F(5)))
    IN  FSub(F(100), FMul(F(5), FSub(corr_temperature, dewpoint)))

correct_humidity(humidity, temperature, corr_temperature) ==
    LET dewpoint      == FSub(temperature, FDiv(FSub(F(100), humidity), F(5)))
        corr_humidity == FSub(F(100), FMul(F(5), FSub(corr_temperature, dewpoint)))
    IN  FMin(F(100), corr_humidity)

\* read_bme280, lines 112-125: the Reading Set entries computed from the
\* three filled windows and the two sampled values
Bme280Result(cpu_temps, raw_temps, raw_humids, pressure, altitude) ==
    LET cpu_temp   == avg(cpu_temps)
        temp       == avg(raw_temps)
        humid      == avg(raw_humids)
        temp_corr  == correct_temperature(temp, cpu_temp)
        humid_corr == correct_humidity(humid, temp, temp_corr)
    IN  [temperature     |-> temp_corr,
         humidity        |-> humid_corr,
         pressure        |-> pressure,
         altitude        |-> altitude,
         cpu_temperature |-> cpu_temp,
         raw_temperature |-> temp,
         raw_humidity    |-> humid]

\* [x] * n
Repeat(x, n) == [k \in 1..n |-> x]

\* values[1:] + [x]
\* a window that takes the new reading without dropping the oldest
ShiftKeepingOldest(values, x) == Append(values, x)

Shift(values, x) == Append(Tail(values), x)

(***************************************************************************)
(* The text the print helpers write.  A line is the sequence of the pieces *)
(* its format string is made of (literal text and formatted arguments), so *)
(* that the kind of a line can be told from its literal pieces; the text   *)
(* printed is their concatenation.  print('') is the line <<>>.            *)
(***************************************************************************)
print_graph(key) == << <<"multigraph enviro_", key>> >>

print_value(data, key) == << <<key, ".value ", Format8f(data[key])>> >>

\* print_graph_value without the line that separates the groups
print_graph_value_unseparated(data, key) == print_graph(key) \o print_value(data, key)

print_graph_value(data, key) == print_graph(key) \o print_value(data, key) \o << <<>> >>

\* print_graph_config that pins the lower limit of every graph to zero
print_graph_config_zero_limited(key, title, vlabel, zero_limit) ==
    << <<"multigraph enviro_", key>>,
       <<"graph_title ", title>>,
       <<"graph_vlabel ", vlabel>>,
       <<"graph_category environment">>,
       <<"graph_args --base 1000 --lower-limit 0">> >>

print_graph_config(key, title, vlabel, zero_limit) ==
    << <<"multigraph enviro_", key>>,
       <<"graph_title ", title>>,
       <<"graph_vlabel ", vlabel>>,
       <<"graph_category environment">>,
       IF zero_limit THEN <<"graph_args --base 1000 --lower-limit 0">>
                     ELSE <<"graph_args --base 1000">> >>

print_value_config(key, title) == << <<key, ".label ", title>> >>

(***************************************************************************)
(* The process.                                                            *)
(*                                                                         *)
(* stack      the call stack, innermost frame last; a frame is             *)
(*            [fn, at, loc]: the function, the source line of its next     *)
(*            statement, and its local variables                           *)
(* argv       sys.argv (argv[1] is Python's sys.argv[0], the script)       *)
(* environ    os.environ, restricted to MUNIN_CAP_DIRTYCONFIG              *)
(* samples    the module-level `samples`                                   *)
(* hw         what the hardware returns: per channel <<first, step>>, the  *)
(*            k-th read (from 0) of a channel giving first + k * step      *)
(* nreads     how many times each read operation has been invoked          *)
(* out        the lines printed so far                                     *)
(* ops        the reads and sleeps performed so far, each [op, val, ok]    *)
(* exit_code  -1 while the process runs, then its exit status              *)
(* ret        <<>>, or <<v>> once the outermost call has returned v        *)
(***************************************************************************)
VARIABLES stack, argv, environ, samples, hw, nreads, out, ops, exit_code, ret

vars == <<stack, argv, environ, samples, hw, nreads, out, ops, exit_code, ret>>

None == <<>>

\* samples = 10
DefaultSamples == 10

ReadOps == {"update_sensor", "get_lux", "read_all", "get_noise_profile",
            "get_cpu_temperature", "get_temperature", "get_humidity",
            "get_pressure", "get_altitude", "func"}

\* the read each source line performs (lines 78 and 81 call sample's `func`)
LineOp ==
    96 :> "update_sensor" @@ 97 :> "get_lux" @@ 98 :> "read_all"
    @@ 99 :> "get_noise_profile"
    @@ 104 :> "get_cpu_temperature" @@ 105 :> "get_temperature"
    @@ 106 :> "get_humidity"
    @@ 109 :> "get_cpu_temperature" @@ 110 :> "get_temperature"
    @@ 111 :> "get_humidity"
    @@ 134 :> "read_all" @@ 136 :> "read_all" @@ 142 :> "read_all"
    @@ 155 :> "get_noise_profile" @@ 162 :> "get_noise_profile"

\* the time.sleep(seconds) lines
SleepSecs ==
    80 :> <<1, 10>> @@ 100 :> <<1, 2>> @@ 108 :> <<1, 10>> @@ 135 :> <<1, 5>>
    @@ 141 :> <<1, 10>> @@ 161 :> <<1, 10>>

\* the local each window line of read_bme280 assigns
Bme280Window ==
    104 :> "cpu_temps" @@ 105 :> "raw_temps" @@ 106 :> "raw_humids"
    @@ 109 :> "cpu_temps" @@ 110 :> "raw_temps" @@ 111 :> "raw_humids"

FirstLine ==
    [read_init |-> 96, read_bme280 |-> 104, read_ltr559 |-> 129, read_gas |-> 134,
     read_noise |-> 155, sample |-> 78, fetch |-> 192, config |-> 245, main |-> 280]

\* get_cpu_temperature: int(temp) / 1000.0 of the thermal zone file's content
get_cpu_temperature(temp) == FDiv(F(temp), F(1000))

Lin(ch, k) == F(ch[1] + k * ch[2])

\* the k-th result (from 0) of hardware read `op`
HwValue(op, k) ==
    CASE op = "update_sensor"       -> None
      [] op = "get_lux"             -> Lin(hw.lux, k)
      [] op = "read_all"            -> [oxidising |-> Lin(hw.oxidising, k),
                                        reducing  |-> Lin(hw.reducing, k),
                                        nh3       |-> Lin(hw.nh3, k)]
      [] op = "get_noise_profile"   -> <<Lin(hw.low, k), Lin(hw.mid, k),
                                         Lin(hw.high, k), Lin(hw.amp, k)>>
      [] op = "get_cpu_temperature" -> get_cpu_temperature(hw.cpu[1] + k * hw.cpu[2])
      [] op = "get_temperature"     -> Lin(hw.temperature, k)
      [] op = "get_humidity"        -> Lin(hw.humidity, k)
      [] op = "get_pressure"        -> Lin(hw.pressure, k)
      [] op = "get_altitude"        -> Lin(hw.altitude, k)

\* 2.0 ** 53, from which on a float no longer holds every whole number
TwoTo53 == <<1, <<1>>, 53>>

\* the whole number 2 ** 53 - 2, three of which no float sum holds exactly
LargeWhole == FSub(TwoTo53, F(2))

\* bound: an arbitrary read operation `func` returns 0.0, 0.1, a whole
\* number from 1 to MaxFuncValue, or LargeWhole
MaxFuncValue == 3

FuncValues ==
    {FDiv(F(k), F(10)) : k \in 0..1} \cup {F(k) : k \in 1..MaxFuncValue} \cup {LargeWhole}

\* what the next call of `op` may return
Outcomes(op) ==
    IF op = "func" THEN FuncValues
    ELSE {HwValue(op, nreads[op])}

(***************************************************************************)
(* Frames, calls and returns.                                              *)
(***************************************************************************)
Running == stack # <<>>

top == stack[Len(stack)]

Frame(fn, loc) == [fn |-> fn, at |-> FirstLine[fn], loc |-> loc]

SetTop(f) == [stack EXCEPT ![Len(stack)] = f]

At(f, line) == [f EXCEPT !.at = line]

Bind(f, name, v) == [f EXCEPT !.loc = (name :> v) @@ @]

\* the read the frame's next statement performs
NextRead(f) == IF f.fn = "sample" THEN f.loc.func ELSE LineOp[f.at]

IsReadLine(f) ==
    \/ f.fn = "sample" /\ f.at \in {78, 81}
    \/ f.fn # "sample" /\ f.at \in DOMAIN LineOp

\* `for i in range(samples)`: enter the body with this i, or leave the loop
\* a loop that runs its body once more than 'samples' times
LoopOnceMore(f, i, bodyLine, afterLine) ==
    Bind(At(f, IF i <= samples THEN bodyLine ELSE afterLine), "i", i)

Loop(f, i, bodyLine, afterLine) ==
    Bind(At(f, IF i < samples THEN bodyLine ELSE afterLine), "i", i)

\* the caller, resumed at its call site with the callee's result v
Resume(caller, v) ==
    CASE caller.at = 117 -> Bind(At(caller, 118), "pressure", v)
      [] caller.at = 118 -> Bind(At(caller, 119), "altitude", v)
      [] caller.at = 129 -> Bind(At(caller, 130), "light", v)
      [] caller.at = 192 -> At(caller, 193)
      [] caller.at \in 194..196 -> Bind(At(caller, caller.at + 1), "data", v @@ caller.loc.data)
      [] caller.at = 197 -> Bind(At(caller, 199), "data", v @@ caller.loc.data)
      [] caller.at = 276 -> At(caller, 277)
      [] caller.at \in {283, 285} -> At(caller, 287)

Call(fn, loc) == stack' = Append(stack, Frame(fn, loc))

Return(v) ==
    IF Len(stack) = 1
    THEN stack' = <<>> /\ ret' = <<v>>
    ELSE /\ stack' = [SubSeq(stack, 1, Len(stack) - 1)
                        EXCEPT ![Len(stack) - 1] = Resume(stack[Len(stack) - 1], v)]
         /\ UNCHANGED ret

\* the read `op` is invoked and returns v
DoRead(op, v) ==
    /\ ops' = Append(ops, [op |-> op, val |-> v, ok |-> TRUE])
    /\ nreads' = [nreads EXCEPT ![op] = @ + 1]

NoIO == UNCHANGED <<ops, nreads>>

Fixed == UNCHANGED <<argv, environ, samples, hw>>

(***************************************************************************)
(* The bodies of config() and fetch(), statement by source line.           *)
(***************************************************************************)
PGC(key, title, vlabel) ==
    [f |-> "print_graph_config", key |-> key, title |-> title, vlabel |-> vlabel]

PVC(key, title) == [f |-> "print_value_config", key |-> key, title |-> title]

PG(key) == [f |-> "print_graph", key |-> key]

PV(key) == [f |-> "print_value", key |-> key]

PGV(key) == [f |-> "print_graph_value", key |-> key]

PB == [f |-> "print"]

ConfigBody ==
    245 :> PGC("temperature", "Temperature", "C")
    @@ 246 :> PVC("temperature", "Temperature")
    @@ 247 :> PVC("raw_temperature", "Raw Temperature")
    @@ 248 :> PVC("cpu_temperature", "CPU Temperature")
    @@ 249 :> PB
    @@ 250 :> PGC("humidity", "Humidity", "%RH")
    @@ 251 :> PVC("humidity", "Humidity")
    @@ 252 :> PVC("raw_humidity", "Raw Humidity")
    @@ 253 :> PB
    @@ 254 :> PGC("pressure", "Pressure", "hPa")
    @@ 255 :> PVC("pressure", "Pressure")
    @@ 256 :> PB
    @@ 257 :> PGC("altitude", "Altitude", "m")
    @@ 258 :> PVC("altitude", "Altitude")
    @@ 259 :> PB
    @@ 260 :> PGC("light", "Light", "Lux")
    @@ 261 :> PVC("light", "Light")
    @@ 262 :> PB
    @@ 263 :> PGC("gas", "Gas", "kO")
    @@ 264 :> PVC("oxidising", "Oxidising")
    @@ 265 :> PVC("reducing", "Reducing")
    @@ 266 :> PVC("nh3", "NH3")
    @@ 267 :> PB
    @@ 268 :> PGC("noise", "Noise", "amp")
    @@ 269 :> PVC("low", "Low")
    @@ 270 :> PVC("mid", "Mid")
    @@ 271 :> PVC("high", "High")
    @@ 272 :> PVC("amp", "Amp")
    @@ 273 :> PB

\* the print statements of fetch(), lines 199-226
FetchBody ==
    199 :> PG("temperature")
    @@ 200 :> PV("temperature")
    @@ 201 :> PV("raw_temperature")
    @@ 202 :> PV("cpu_temperature")
    @@ 203 :> PB
    @@ 205 :> PG("humidity")
    @@ 206 :> PV("humidity")
    @@ 207 :> PV("raw_humidity")
    @@ 208 :> PB
    @@ 210 :> PGV("pressure")
    @@ 212 :> PGV("altitude")
    @@ 214 :> PGV("light")
    @@ 216 :> PG("gas")
    @@ 217 :> PV("oxidising")
    @@ 218 :> PV("reducing")
    @@ 219 :> PV("nh3")
    @@ 220 :> PB
    @@ 222 :> PG("noise")
    @@ 223 :> PV("low")
    @@ 224 :> PV("mid")
    @@ 225 :> PV("high")
    @@ 226 :> PV("amp")

\* the reading functions fetch() calls, lines 192 and 194-197
FetchCalls ==
    192 :> "read_init" @@ 194 :> "read_bme280" @@ 195 :> "read_ltr559"
    @@ 196 :> "read_gas" @@ 197 :> "read_noise"

\* the line of the statement after `line` in `body`, or `end` after the last
NextLine(body, line, end) ==
    LET later == {l \in DOMAIN body : l > line}
    IN  IF later = {} THEN end
        ELSE CHOOSE l \in later : \A m \in later : l <= m

\* the lines one print statement writes
Printed(stmt, data) ==
    CASE stmt.f = "print_graph_config" ->
             print_graph_config(stmt.key, stmt.title, stmt.vlabel, FALSE)
      [] stmt.f = "print_value_config" -> print_value_config(stmt.key, stmt.title)
      [] stmt.f = "print_graph"        -> print_graph(stmt.key)
      [] stmt.f = "print_value"        -> print_value(data, stmt.key)
      [] stmt.f = "print_graph_value"  -> print_graph_value(data, stmt.key)
      [] stmt.f = "print"              -> << <<>> >>

(***************************************************************************)
(* The module level, lines 279-287.                                        *)
(***************************************************************************)
\* Python's sys.argv[k]
Argv(k) == argv[k + 1]

\* lines 280-285: the branch taken
\* a dispatch in which 'autoconf' answers and then goes on to report values
MainAutoconfFallsThrough ==
    /\ Running /\ top.fn = "main" /\ top.at = 280
    /\ IF Len(argv) > 1 /\ Argv(1) = "autoconf"
       THEN /\ out' = Append(out, <<"yes">>)
            /\ stack' = SetTop(At(top, 285))
       ELSE IF Len(argv) > 1 /\ Argv(1) = "config"
       THEN /\ stack' = SetTop(At(top, 283))
            /\ UNCHANGED out
       ELSE /\ stack' = SetTop(At(top, 285))
            /\ UNCHANGED out
    /\ NoIO /\ Fixed /\ UNCHANGED <<exit_code, ret>>

\* a dispatch that looks for its keyword in every argument
MainAnyArgument ==
    /\ Running /\ top.fn = "main" /\ top.at = 280
    /\ IF \E k \in 1..(Len(argv) - 1) : Argv(k) = "autoconf"
       THEN /\ out' = Append(out, <<"yes">>)
            /\ stack' = SetTop(At(top, 287))
       ELSE IF \E k \in 1..(Len(argv) - 1) : Argv(k) = "config"
       THEN /\ stack' = SetTop(At(top, 283))
            /\ UNCHANGED out
       ELSE /\ stack' = SetTop(At(top, 285))
            /\ UNCHANGED out
    /\ NoIO /\ Fixed /\ UNCHANGED <<exit_code, ret>>

Main ==
    /\ Running /\ top.fn = "main" /\ top.at = 280
    /\ IF Len(argv) > 1 /\ Argv(1) = "autoconf"
       THEN /\ out' = Append(out, <<"yes">>)
            /\ stack' = SetTop(At(top, 287))
       ELSE IF Len(argv) > 1 /\ Argv(1) = "config"
       THEN /\ stack' = SetTop(At(top, 283))
            /\ UNCHANGED out
       ELSE /\ stack' = SetTop(At(top, 285))
            /\ UNCHANGED out
    /\ NoIO /\ Fixed /\ UNCHANGED <<exit_code, ret>>

\* line 283, config(), and line 285, fetch()
MainCall ==
    /\ Running /\ top.fn = "main" /\ top.at \in {283, 285}
    /\ Call(IF top.at = 283 THEN "config" ELSE "fetch", <<>>)
    /\ NoIO /\ Fixed /\ UNCHANGED <<out, exit_code, ret>>

\* line 287: exit(0)
Exit ==
    /\ Running /\ top.fn = "main" /\ top.at = 287
    /\ stack' = <<>>
    /\ exit_code' = 0
    /\ NoIO /\ Fixed /\ UNCHANGED <<out, ret>>

(***************************************************************************)
(* config(), lines 244-276.                                                *)
(***************************************************************************)
ConfigPrint ==
    /\ Running /\ top.fn = "config" /\ top.at \in DOMAIN ConfigBody
    /\ out' = out \o Printed(ConfigBody[top.at], <<>>)
    /\ stack' = SetTop(At(top, NextLine(ConfigBody, top.at, 275)))
    /\ NoIO /\ Fixed /\ UNCHANGED <<exit_code, ret>>

\* os.environ.get(name) == value
\* a test that takes any other setting of the variable for the wanted one
EnvironIsNot(name, value) == name \in DOMAIN environ /\ environ[name] # value

\* a test that takes any non-empty setting of the variable for the wanted one
EnvironIsSet(name, value) == name \in DOMAIN environ /\ environ[name] # ""

EnvironIs(name, value) == name \in DOMAIN environ /\ environ[name] = value

\* line 275
ConfigDirty ==
    /\ Running /\ top.fn = "config" /\ top.at = 275
    /\ stack' = SetTop(At(top, IF EnvironIs("MUNIN_CAP_DIRTYCONFIG", "1") THEN 276 ELSE 277))
    /\ NoIO /\ Fixed /\ UNCHANGED <<out, exit_code, ret>>

\* line 276
ConfigCallFetch ==
    /\ Running /\ top.fn = "config" /\ top.at = 276
    /\ Call("fetch", <<>>)
    /\ NoIO /\ Fixed /\ UNCHANGED <<out, exit_code, ret>>

ConfigReturn ==
    /\ Running /\ top.fn = "config" /\ top.at = 277
    /\ Return(None)
    /\ NoIO /\ Fixed /\ UNCHANGED <<out, exit_code>>

(***************************************************************************)
(* fetch(), lines 191-226.                                                 *)
(***************************************************************************)
\* lines 192 and 194-197: call a reading function
FetchCall ==
    /\ Running /\ top.fn = "fetch" /\ top.at \in DOMAIN FetchCalls
    /\ Call(FetchCalls[top.at], <<>>)
    /\ NoIO /\ Fixed /\ UNCHANGED <<out, exit_code, ret>>

\* line 193: data = {}
FetchData ==
    /\ Running /\ top.fn = "fetch" /\ top.at = 193
    /\ stack' = SetTop(Bind(At(top, 194), "data", <<>>))
    /\ NoIO /\ Fixed /\ UNCHANGED <<out, exit_code, ret>>

\* lines 199-226
FetchPrint ==
    /\ Running /\ top.fn = "fetch" /\ top.at \in DOMAIN FetchBody
    /\ out' = out \o Printed(FetchBody[top.at], top.loc.data)
    /\ stack' = SetTop(At(top, NextLine(FetchBody, top.at, 227)))
    /\ NoIO /\ Fixed /\ UNCHANGED <<exit_code, ret>>

FetchReturn ==
    /\ Running /\ top.fn = "fetch" /\ top.at = 227
    /\ Return(None)
    /\ NoIO /\ Fixed /\ UNCHANGED <<out, exit_code>>

(***************************************************************************)
(* time.sleep, and a read that raises.                                     *)
(***************************************************************************)
\* lines 80, 100, 108, 135, 141, 161
Sleep ==
    /\ Running /\ top.at \in DOMAIN SleepSecs
    /\ ops' = Append(ops, [op |-> "sleep", val |-> SleepSecs[top.at], ok |-> TRUE])
    /\ stack' = SetTop(At(top, top.at + 1))
    /\ Fixed /\ UNCHANGED <<nreads, out, exit_code, ret>>

\* A read operation raises: nothing catches it, so the exception unwinds every
\* frame and the interpreter ends the process with status 1, before line 287.
\* a failing read that is caught: the failure is recorded and the caller
\* stays where it is, to read again
RaiseCaught ==
    /\ Running /\ IsReadLine(top)
    /\ \A i \in 1..Len(ops) : ops[i].ok
    /\ ops' = Append(ops, [op |-> NextRead(top), val |-> None, ok |-> FALSE])
    /\ nreads' = [nreads EXCEPT ![NextRead(top)] = @ + 1]
    /\ Fixed /\ UNCHANGED <<stack, out, exit_code, ret>>

Raise ==
    /\ Running /\ IsReadLine(top)
    /\ ops' = Append(ops, [op |-> NextRead(top), val |-> None, ok |-> FALSE])
    /\ nreads' = [nreads EXCEPT ![NextRead(top)] = @ + 1]
    /\ stack' = <<>>
    /\ exit_code' = 1
    /\ Fixed /\ UNCHANGED <<out, ret>>

(***************************************************************************)
(* sample(func), lines 77-82.                                              *)
(***************************************************************************)
\* line 78: values = [func()] * samples; line 79 enters the loop
SampleFill ==
    /\ Running /\ top.fn = "sample" /\ top.at = 78
    /\ \E v \in Outcomes(top.loc.func) :
          /\ DoRead(top.loc.func, v)
          /\ stack' = SetTop(Loop(Bind(top, "values", Repeat(v, samples)), 0, 80, 82))
    /\ Fixed /\ UNCHANGED <<out, exit_code, ret>>

\* line 81: values = values[1:] + [func()]; then the next iteration
SampleShift ==
    /\ Running /\ top.fn = "sample" /\ top.at = 81
    /\ \E v \in Outcomes(top.loc.func) :
          /\ DoRead(top.loc.func, v)
          /\ stack' = SetTop(Loop(Bind(top, "values", Shift(top.loc.values, v)),
                                  top.loc.i + 1, 80, 82))
    /\ Fixed /\ UNCHANGED <<out, exit_code, ret>>

\* line 82
SampleReturn ==
    /\ Running /\ top.fn = "sample" /\ top.at = 82
    /\ Return(avg(top.loc.values))
    /\ NoIO /\ Fixed /\ UNCHANGED <<out, exit_code>>

(***************************************************************************)
(* read_init(), lines 95-100.                                              *)
(***************************************************************************)
\* lines 96-99
ReadInit ==
    /\ Running /\ top.fn = "read_init" /\ top.at \in 96..99
    /\ \E v \in Outcomes(LineOp[top.at]) : DoRead(LineOp[top.at], v)
    /\ stack' = SetTop(At(top, top.at + 1))
    /\ Fixed /\ UNCHANGED <<out, exit_code, ret>>

ReadInitReturn ==
    /\ Running /\ top.fn = "read_init" /\ top.at = 101
    /\ Return(None)
    /\ NoIO /\ Fixed /\ UNCHANGED <<out, exit_code>>

(***************************************************************************)
(* read_bme280(), lines 103-125.                                           *)
(***************************************************************************)
\* lines 104-106: a window filled with the first reading; line 107 enters the loop
ReadBme280Fill ==
    /\ Running /\ top.fn = "read_bme280" /\ top.at \in 104..106
    /\ \E v \in Outcomes(LineOp[top.at]) :
          /\ DoRead(LineOp[top.at], v)
          /\ LET f == Bind(top, Bme280Window[top.at], Repeat(v, samples))
             IN  stack' = SetTop(IF top.at < 106 THEN At(f, top.at + 1)
                                 ELSE Loop(f, 0, 108, 117))
    /\ Fixed /\ UNCHANGED <<out, exit_code, ret>>

\* lines 109-111: a window shifted by one reading; after line 111 the next iteration
ReadBme280Shift ==
    /\ Running /\ top.fn = "read_bme280" /\ top.at \in 109..111
    /\ \E v \in Outcomes(LineOp[top.at]) :
          /\ DoRead(LineOp[top.at], v)
          /\ LET f == Bind(top, Bme280Window[top.at],
                           Shift(top.loc[Bme280Window[top.at]], v))
             IN  stack' = SetTop(IF top.at < 111 THEN At(f, top.at + 1)
                                 ELSE Loop(f, top.loc.i + 1, 108, 117))
    /\ Fixed /\ UNCHANGED <<out, exit_code, ret>>

\* lines 117 and 118: sample(bme280.get_pressure), sample(bme280.get_altitude)
ReadBme280Sample ==
    /\ Running /\ top.fn = "read_bme280" /\ top.at \in {117, 118}
    /\ Call("sample", [func |-> IF top.at = 117 THEN "get_pressure" ELSE "get_altitude"])
    /\ NoIO /\ Fixed /\ UNCHANGED <<out, exit_code, ret>>

\* lines 112-116 and 119-125 (the averages and corrections read no sensor)
ReadBme280Return ==
    /\ Running /\ top.fn = "read_bme280" /\ top.at = 119
    /\ Return(Bme280Result(top.loc.cpu_temps, top.loc.raw_temps, top.loc.raw_humids,
                           top.loc.pressure, top.loc.altitude))
    /\ NoIO /\ Fixed /\ UNCHANGED <<out, exit_code>>

(***************************************************************************)
(* read_ltr559(), lines 128-130.                                           *)
(***************************************************************************)
ReadLtr559Sample ==
    /\ Running /\ top.fn = "read_ltr559" /\ top.at = 129
    /\ Call("sample", [func |-> "get_lux"])
    /\ NoIO /\ Fixed /\ UNCHANGED <<out, exit_code, ret>>

ReadLtr559Return ==
    /\ Running /\ top.fn = "read_ltr559" /\ top.at = 130
    /\ Return([light |-> top.loc.light])
    /\ NoIO /\ Fixed /\ UNCHANGED <<out, exit_code>>

(***************************************************************************)
(* read_gas(), lines 133-151.                                              *)
(***************************************************************************)
\* line 134: a first read_all whose result is dropped
ReadGasPrime ==
    /\ Running /\ top.fn = "read_gas" /\ top.at = 134
    /\ \E v \in Outcomes("read_all") : DoRead("read_all", v)
    /\ stack' = SetTop(At(top, 135))
    /\ Fixed /\ UNCHANGED <<out, exit_code, ret>>

Kilo(x) == FDiv(x, F(1000))

\* lines 136-139; line 140 enters the loop
ReadGasFill ==
    /\ Running /\ top.fn = "read_gas" /\ top.at = 136
    /\ \E data \in Outcomes("read_all") :
          /\ DoRead("read_all", data)
          /\ stack' = SetTop(Loop(
                 Bind(Bind(Bind(top, "ox", Repeat(Kilo(data.oxidising), samples)),
                           "re", Repeat(Kilo(data.reducing), samples)),
                      "nh", Repeat(Kilo(data.nh3), samples)),
                 0, 141, 146))
    /\ Fixed /\ UNCHANGED <<out, exit_code, ret>>

\* lines 142-145; then the next iteration
ReadGasShift ==
    /\ Running /\ top.fn = "read_gas" /\ top.at = 142
    /\ \E data \in Outcomes("read_all") :
          /\ DoRead("read_all", data)
          /\ stack' = SetTop(Loop(
                 Bind(Bind(Bind(top, "ox", Shift(top.loc.ox, Kilo(data.oxidising))),
                           "re", Shift(top.loc.re, Kilo(data.reducing))),
                      "nh", Shift(top.loc.nh, Kilo(data.nh3))),
                 top.loc.i + 1, 141, 146))
    /\ Fixed /\ UNCHANGED <<out, exit_code, ret>>

\* lines 146-151
ReadGasReturn ==
    /\ Running /\ top.fn = "read_gas" /\ top.at = 146
    /\ Return([oxidising |-> avg(top.loc.ox),
               reducing  |-> avg(top.loc.re),
               nh3       |-> avg(top.loc.nh)])
    /\ NoIO /\ Fixed /\ UNCHANGED <<out, exit_code>>

(***************************************************************************)
(* read_noise(), lines 154-174.                                            *)
(***************************************************************************)
\* lines 155-159; line 160 enters the loop
ReadNoiseFill ==
    /\ Running /\ top.fn = "read_noise" /\ top.at = 155
    /\ \E p \in Outcomes("get_noise_profile") :
          /\ DoRead("get_noise_profile", p)
          /\ stack' = SetTop(Loop(
                 Bind(Bind(Bind(Bind(top, "lows", Repeat(p[1], samples)),
                                "mids", Repeat(p[2], samples)),
                           "highs", Repeat(p[3], samples)),
                      "amps", Repeat(p[4], samples)),
                 0, 161, 167))
    /\ Fixed /\ UNCHANGED <<out, exit_code, ret>>

\* lines 162-166; then the next iteration
ReadNoiseShift ==
    /\ Running /\ top.fn = "read_noise" /\ top.at = 162
    /\ \E p \in Outcomes("get_noise_profile") :
          /\ DoRead("get_noise_profile", p)
          /\ stack' = SetTop(Loop(
                 Bind(Bind(Bind(Bind(top, "lows", Shift(top.loc.lows, p[1])),
                                "mids", Shift(top.loc.mids, p[2])),
                           "highs", Shift(top.loc.highs, p[3])),
                      "amps", Shift(top.loc.amps, p[4])),
                 top.loc.i + 1, 161, 167))
    /\ Fixed /\ UNCHANGED <<out, exit_code, ret>>

\* lines 167-174
ReadNoiseReturn ==
    /\ Running /\ top.fn = "read_noise" /\ top.at = 167
    /\ Return([low  |-> avg(top.loc.lows),
               mid  |-> avg(top.loc.mids),
               high |-> avg(top.loc.highs),
               amp  |-> avg(top.loc.amps)])
    /\ NoIO /\ Fixed /\ UNCHANGED <<out, exit_code>>

(***************************************************************************)
(* The runs checked: command lines, environments and hardware.             *)
(***************************************************************************)
\* bound: the number of command-line arguments after the script name
MaxArgs == 2

ArgWords == {"autoconf", "config", "suggest"}

Argvs == {<<"enviro">> \o a : a \in UNION {[1..n -> ArgWords] : n \in 0..MaxArgs}}

Environs ==
    {<<>>} \cup {[MUNIN_CAP_DIRTYCONFIG |-> v] : v \in {"1", "0", "", "yes"}}

SteadyHw ==
    [cpu |-> <<42500, 0>>, temperature |-> <<20, 0>>, humidity |-> <<50, 0>>,
     pressure |-> <<1013, 0>>, altitude |-> <<120, 0>>, lux |-> <<200, 0>>,
     oxidising |-> <<5000, 0>>, reducing |-> <<400000, 0>>, nh3 |-> <<7500, 0>>,
     low |-> <<1, 0>>, mid |-> <<2, 0>>, high |-> <<3, 0>>, amp |-> <<4, 0>>]

DriftingHw ==
    [cpu |-> <<40000, 250>>, temperature |-> <<18, 1>>, humidity |-> <<30, 2>>,
     pressure |-> <<1000, 1>>, altitude |-> <<100, -3>>, lux |-> <<0, 7>>,
     oxidising |-> <<4000, 100>>, reducing |-> <<300000, -500>>, nh3 |-> <<7000, 33>>,
     low |-> <<10, 1>>, mid |-> <<20, -1>>, high |-> <<0, 2>>, amp |-> <<5, 3>>]

ColdDryHw ==
    [cpu |-> <<11000, 0>>, temperature |-> <<20, 0>>, humidity |-> <<5, 0>>,
     pressure |-> <<980, 0>>, altitude |-> <<-30, 0>>, lux |-> <<0, 0>>,
     oxidising |-> <<1, 0>>, reducing |-> <<2, 0>>, nh3 |-> <<3, 0>>,
     low |-> <<0, 0>>, mid |-> <<0, 0>>, high |-> <<0, 0>>, amp |-> <<0, 0>>]

HwProfiles == {SteadyHw, DriftingHw, ColdDryHw}

\* the script starts at line 280 with the driver handles of lines 58-60 constructed
Init ==
    /\ stack = <<Frame("main", <<>>)>>
    /\ argv \in Argvs
    /\ environ \in Environs
    /\ samples = DefaultSamples
    /\ hw \in HwProfiles
    /\ nreads = [op \in ReadOps |-> 0]
    /\ out = <<>>
    /\ ops = <<>>
    /\ exit_code = -1
    /\ ret = <<>>

Next ==
    \/ Main \/ MainCall \/ Exit
    \/ ConfigPrint \/ ConfigDirty \/ ConfigCallFetch \/ ConfigReturn
    \/ FetchCall \/ FetchData \/ FetchPrint \/ FetchReturn
    \/ Sleep \/ Raise
    \/ SampleFill \/ SampleShift \/ SampleReturn
    \/ ReadInit \/ ReadInitReturn
    \/ ReadBme280Fill \/ ReadBme280Shift \/ ReadBme280Sample \/ ReadBme280Return
    \/ ReadLtr559Sample \/ ReadLtr559Return
    \/ ReadGasPrime \/ ReadGasFill \/ ReadGasShift \/ ReadGasReturn
    \/ ReadNoiseFill \/ ReadNoiseShift \/ ReadNoiseReturn

Spec == Init /\ [][Next]_vars

(***************************************************************************)
(* sample(func) on its own: any sample count from 1 and any read           *)
(* operation, whose successive results are drawn from FuncValues.          *)
(***************************************************************************)
\* bound: the sample counts checked are 1..MaxSamples
MaxSamples == 3

InitSample ==
    /\ stack = <<Frame("sample", [func |-> "func"])>>
    /\ argv = <<"enviro">>
    /\ environ = <<>>
    /\ samples \in 1..MaxSamples
    /\ hw = SteadyHw
    /\ nreads = [op \in ReadOps |-> 0]
    /\ out = <<>>
    /\ ops = <<>>
    /\ exit_code = -1
    /\ ret = <<>>

NextSample == SampleFill \/ Sleep \/ SampleShift \/ SampleReturn \/ Raise

SpecSample == InitSample /\ [][NextSample]_vars

(***************************************************************************)
(* correct_humidity on its own, and the corrections at the end of          *)
(* read_bme280(), on inputs drawn from bounded sets.                       *)
(***************************************************************************)
\* bound: raw humidities 0, 20.1, ... up to 20.1 * MaxHumidityStep
MaxHumidityStep == 5

\* bound: temperatures -2.5 * MaxTempStep, ..., 0, ..., 2.5 * MaxTempStep
MaxTempStep == 3

CalibHumidities == {FDiv(F(201 * k), F(10)) : k \in 0..MaxHumidityStep}

CalibTemps == {FDiv(F(5 * k), F(2)) : k \in -MaxTempStep..MaxTempStep}

\* a call correct_humidity(humidity, temperature, corr_temperature)
CorrectHumidityCalls ==
    {<<[fn |-> "correct_humidity", at |-> 90,
        loc |-> [humidity |-> h, temperature |-> t, corr_temperature |-> c]]>> :
        h \in CalibHumidities, t \in CalibTemps, c \in CalibTemps}

\* fetch() at line 194, inside read_bme280() at its return statement with its
\* windows full
Bme280Returns ==
    {<<Bind(At(Frame("fetch", <<>>), 194), "data", <<>>),
       [fn |-> "read_bme280", at |-> 119,
        loc |-> [cpu_temps |-> Repeat(c, DefaultSamples),
                 raw_temps |-> Repeat(t, DefaultSamples),
                 raw_humids |-> Repeat(h, DefaultSamples),
                 pressure |-> F(1013), altitude |-> F(120), i |-> DefaultSamples]]>> :
        c \in {F(11), F(20), FDiv(F(425), F(10))}, t \in {F(20), F(25)},
        h \in {F(5), F(50), F(90)}}

InitCalib ==
    /\ stack \in CorrectHumidityCalls \cup Bme280Returns
    /\ argv = <<"enviro">>
    /\ environ = <<>>
    /\ samples = DefaultSamples
    /\ hw = SteadyHw
    /\ nreads = [op \in ReadOps |-> 0]
    /\ out = <<>>
    /\ ops = <<>>
    /\ exit_code = -1
    /\ ret = <<>>

\* lines 89-92
CorrectHumidity ==
    /\ Running /\ top.fn = "correct_humidity"
    /\ Return(correct_humidity(top.loc.humidity, top.loc.temperature,
                               top.loc.corr_temperature))
    /\ NoIO /\ Fixed /\ UNCHANGED <<out, exit_code>>

NextCalib == CorrectHumidity \/ ReadBme280Return

SpecCalib == InitCalib /\ [][NextCalib]_vars

(***************************************************************************)
(* What the claims speak of.                                               *)
(***************************************************************************)
\* the seven metric groups and their member keys, in emission order
Groups ==
    << [name |-> "temperature", keys |-> <<"temperature", "raw_temperature", "cpu_temperature">>],
       [name |-> "humidity",    keys |-> <<"humidity", "raw_humidity">>],
       [name |-> "pressure",    keys |-> <<"pressure">>],
       [name |-> "altitude",    keys |-> <<"altitude">>],
       [name |-> "light",       keys |-> <<"light">>],
       [name |-> "gas",         keys |-> <<"oxidising", "reducing", "nh3">>],
       [name |-> "noise",       keys |-> <<"low", "mid", "high", "amp">>] >>

\* what kind of line a printed line is
LineKind(line) ==
    IF line = <<>> THEN <<"blank">>
    ELSE IF Len(line) = 3 /\ line[2] = ".value " THEN <<"value", line[1]>>
    ELSE IF Len(line) = 3 /\ line[2] = ".label " THEN <<"label", line[1]>>
    ELSE IF Len(line) = 2 /\ line[1] = "multigraph enviro_" THEN <<"graph", line[2]>>
    ELSE IF Len(line) = 2 /\ line[1] = "graph_title " THEN <<"title">>
    ELSE IF Len(line) = 2 /\ line[1] = "graph_vlabel " THEN <<"vlabel">>
    ELSE IF line = <<"graph_category environment">> THEN <<"category">>
    ELSE IF line \in {<<"graph_args --base 1000">>,
                      <<"graph_args --base 1000 --lower-limit 0">>} THEN <<"args">>
    ELSE IF line = <<"yes">> THEN <<"yes">>
    ELSE <<"other">>

Kinds(lines) == [i \in 1..Len(lines) |-> LineKind(lines[i])]

IsPrefix(a, b) == Len(a) <= Len(b) /\ a = SubSeq(b, 1, Len(a))

Tagged(tag, keys) == [i \in 1..Len(keys) |-> <<tag, keys[i]>>]

\* a group of the value report: header, one value line per key, and the
\* blank line if it has one
ValueGroup(g, blank) ==
    << <<"graph", g.name>> >> \o Tagged("value", g.keys)
        \o (IF blank THEN << <<"blank">> >> ELSE <<>>)

\* a group of the config block
ConfigGroup(g) ==
    << <<"graph", g.name>>, <<"title">>, <<"vlabel">>, <<"category">>, <<"args">> >>
        \o Tagged("label", g.keys) \o << <<"blank">> >>

RECURSIVE ValueGroupsFrom(_, _)
\* groups i.. of the value report, the last one with a blank line or without
ValueGroupsFrom(i, lastBlank) ==
    IF i > Len(Groups) THEN <<>>
    ELSE ValueGroup(Groups[i], i < Len(Groups) \/ lastBlank)
             \o ValueGroupsFrom(i + 1, lastBlank)

RECURSIVE ConfigGroupsFrom(_)
ConfigGroupsFrom(i) ==
    IF i > Len(Groups) THEN <<>>
    ELSE ConfigGroup(Groups[i]) \o ConfigGroupsFrom(i + 1)

\* the value report with a blank line after every group
ValueReportAllBlank == ValueGroupsFrom(1, TRUE)

\* the value report whose last group ends the output
ValueReport == ValueGroupsFrom(1, FALSE)

ConfigBlock == ConfigGroupsFrom(1)

HasValueLine == \E i \in 1..Len(out) : LineKind(out[i])[1] = "value"

IsRead(e) == e.op # "sleep"

IsSleep(e) == e.op = "sleep"

HasRead == \E i \in 1..Len(ops) : IsRead(ops[i])

NoArgument == Len(argv) = 1

FirstArgIs(word) == Len(argv) >= 2 /\ argv[2] = word

DirtyFlagIsOne ==
    "MUNIN_CAP_DIRTYCONFIG" \in DOMAIN environ /\ environ["MUNIN_CAP_DIRTYCONFIG"] = "1"

Exited0 == stack = <<>> /\ exit_code = 0

(***************************************************************************)
(* C1.  Value-report mode with no argument prints the seven groups in the  *)
(* order temperature, humidity, pressure, altitude, light, gas, noise,     *)
(* each header followed by its '<key>.value' lines.                        *)
(***************************************************************************)
\* C1 as stated: every one of the seven groups, noise included, is followed
\* by a blank line.
C1_AsStated == (NoArgument /\ Exited0) => Kinds(out) = ValueReportAllBlank

\* C1 as amended: the output is exactly the seven headers in order, each
\* followed by its value lines; the first six groups are each followed by a
\* blank line, and the last value line of the noise group ends the output.
C1_ValueReportShape ==
    NoArgument => /\ IsPrefix(Kinds(out), ValueReport)
                  /\ Exited0 => Kinds(out) = ValueReport

C1_Witness == NoArgument /\ Exited0 /\ hw = DriftingHw /\ Len(out) = Len(ValueReport)

(***************************************************************************)
(* C2.  The graph-scaling directive of the seven groups in config mode.    *)
(***************************************************************************)
ConfigBlockPrinted == Len(out) >= Len(ConfigBlock)

ArgsLines == {i \in 1..Len(out) : LineKind(out[i]) = <<"args">>}

\* C2 as stated: in config mode each of the seven groups is emitted with a
\* graph-scaling directive that is base-1000 and carries the lower-limit-zero
\* directive.
C2_AsStated ==
    FirstArgIs("config") =>
        /\ \A i \in ArgsLines : out[i] = <<"graph_args --base 1000 --lower-limit 0">>
        /\ ConfigBlockPrinted => Kinds(SubSeq(out, 1, Len(ConfigBlock))) = ConfigBlock

\* C2 as amended: in config mode each of the seven groups is emitted with the
\* base-1000 graph-scaling directive 'graph_args --base 1000', and none
\* carries the lower-limit-zero directive.
C2_BaseThousandOnly ==
    FirstArgIs("config") =>
        /\ \A i \in ArgsLines : out[i] = <<"graph_args --base 1000">>
        /\ ConfigBlockPrinted => Kinds(SubSeq(out, 1, Len(ConfigBlock))) = ConfigBlock

C2_Witness ==
    FirstArgIs("config") /\ Exited0 /\ Cardinality(ArgsLines) = Len(Groups)

(***************************************************************************)
(* C3.  Config mode with MUNIN_CAP_DIRTYCONFIG = '1'.                      *)
(***************************************************************************)
\* C3: the output is the complete config block of the seven groups followed
\* by a complete value report, in that order: no value line comes before the
\* last config line, and no sensor is read before the config block has been
\* printed in full.
C3_ConfigThenValues ==
    (FirstArgIs("config") /\ DirtyFlagIsOne) =>
        /\ IsPrefix(Kinds(out), ConfigBlock \o ValueReport)
        /\ HasRead => ConfigBlockPrinted
        /\ Exited0 => Kinds(out) = ConfigBlock \o ValueReport

C3_Witness ==
    FirstArgIs("config") /\ DirtyFlagIsOne /\ Exited0 /\ HasValueLine /\ HasRead

(***************************************************************************)
(* C4.  Config mode with MUNIN_CAP_DIRTYCONFIG unset or not '1'.           *)
(***************************************************************************)
\* C4: the output holds configuration lines only, no value line, and no
\* sensor read is ever invoked.
C4_ConfigOnly ==
    (FirstArgIs("config") /\ ~DirtyFlagIsOne) =>
        /\ IsPrefix(Kinds(out), ConfigBlock)
        /\ ~HasValueLine
        /\ ~HasRead
        /\ Exited0 => Kinds(out) = ConfigBlock

C4_Witness ==
    /\ FirstArgIs("config") /\ Exited0 /\ Kinds(out) = ConfigBlock
    /\ "MUNIN_CAP_DIRTYCONFIG" \in DOMAIN environ
    /\ environ["MUNIN_CAP_DIRTYCONFIG"] = "yes"

(***************************************************************************)
(* C5.  autoconf.                                                          *)
(***************************************************************************)
\* C5: with first argument 'autoconf' the output is exactly the one line
\* 'yes', no sensor read is invoked, and the process ends with exit code 0.
C5_Autoconf ==
    FirstArgIs("autoconf") =>
        /\ ops = <<>>
        /\ out \in {<<>>, << <<"yes">> >>}
        /\ exit_code \in {-1, 0}
        /\ stack = <<>> => (out = << <<"yes">> >> /\ exit_code = 0)

C5_Witness == FirstArgIs("autoconf") /\ Exited0 /\ out = << <<"yes">> >>

(***************************************************************************)
(* C6.  The behaviour is chosen by the first argument alone.               *)
(***************************************************************************)
\* the behaviour the first argument selects
Selected ==
    IF FirstArgIs("autoconf") THEN "discovery"
    ELSE IF FirstArgIs("config") THEN "config"
    ELSE "value-report"

\* the behaviour the output so far shows (none while nothing is printed)
Shown ==
    IF out = <<>> THEN "none"
    ELSE IF LineKind(out[1]) = <<"yes">> THEN "discovery"
    ELSE IF Len(out) >= 2 /\ LineKind(out[2]) = <<"title">> THEN "config"
    ELSE IF Len(out) >= 2 /\ LineKind(out[2])[1] = "value" THEN "value-report"
    ELSE "none"

\* C6: the process performs exactly the behaviour its first argument selects
\* ('autoconf' discovery, 'config' config, anything else or nothing the value
\* report), whatever the later arguments, and never another one.
C6_OneBehaviour ==
    /\ Shown \in {"none", Selected}
    /\ Exited0 => Shown = Selected
    /\ Selected = "discovery" => (~HasRead /\ Len(out) <= 1)
    /\ Selected = "config" => IsPrefix(Kinds(out), ConfigBlock \o ValueReport)
    /\ Selected = "value-report" => IsPrefix(Kinds(out), ValueReport)
    /\ HasRead => IF Selected = "config" THEN DirtyFlagIsOne ELSE Selected = "value-report"

C6_Witness ==
    /\ Len(argv) = 3 /\ argv[2] = "suggest" /\ argv[3] = "config"
    /\ Exited0 /\ Shown = "value-report"

(***************************************************************************)
(* C10.  A sensor read that fails.                                         *)
(***************************************************************************)
ReadFunctions == {"read_init", "read_bme280", "read_ltr559", "read_gas", "read_noise", "sample"}

\* C10: once a read has failed it is the last operation ever invoked (no
\* retry, no further read), the process has ended with a non-zero status
\* without passing exit(0), and no value line of the pass has been printed,
\* every group being sampled before the first value line.
C10_FailingRead ==
    /\ \A i \in 1..Len(ops) :
          ~ops[i].ok => /\ i = Len(ops)
                        /\ stack = <<>>
                        /\ exit_code = 1
                        /\ ~HasValueLine
    /\ HasValueLine => \A k \in 1..Len(stack) : stack[k].fn \notin ReadFunctions
    /\ exit_code = 0 => \A i \in 1..Len(ops) : ops[i].ok

C10_Witness ==
    /\ FirstArgIs("config") /\ ops # <<>> /\ ~ops[Len(ops)].ok
    /\ ops[Len(ops)].op = "get_noise_profile" /\ Len(ops) > 100
    /\ exit_code = 1 /\ ConfigBlockPrinted

(***************************************************************************)
(* C7, C8.  sample(func), checked under SpecSample.                        *)
(***************************************************************************)
Returned == stack = <<>> /\ ret # <<>>

\* the values func returned, in call order
FuncReads == LET r == SelectSeq(ops, IsRead) IN [i \in 1..Len(r) |-> r[i].val]

Sleeps == SelectSeq(ops, IsSleep)

\* the last n of a sequence
LastN(r, n) == SubSeq(r, Len(r) - n + 1, Len(r))

AllEqual(r) == \A i \in 1..Len(r) : r[i] = r[1]

\* strictly increasing with one common difference
IsArithmetic(r) ==
    /\ Len(r) >= 2
    /\ FLt(r[1], r[2])
    /\ \A i \in 1..(Len(r) - 1) : FSub(r[i + 1], r[i]) = FSub(r[2], r[1])

\* whole numbers so small that n of them add up to less than 2 ** 53 in
\* magnitude, so that every partial sum is a float
AllSmallWhole(r, n) ==
    \A i \in 1..Len(r) :
        /\ FIsInt(r[i])
        /\ FLt(FMul(F(n), r[i]), TwoTo53)
        /\ FLt(FMul(F(n), FNeg(r[i])), TwoTo53)

\* C7 as stated: sample returns the mean of the last N of its N+1 reads; if
\* every read returned v the result is exactly v; if the reads are a strictly
\* increasing arithmetic sequence the result is (first of the last N + last
\* of the last N) / 2.
C7_AsStated ==
    Returned =>
        LET r == FuncReads
            w == LastN(r, samples)
        IN  /\ Len(r) = samples + 1
            /\ ret[1] = FDiv(Sum(w), F(samples))
            /\ AllEqual(r) => ret[1] = r[1]
            /\ IsArithmetic(r) => ret[1] = FDiv(FAdd(w[1], w[samples]), F(2))

\* C7 as amended: sample returns the floating-point sum, taken left to right
\* from 0, of the last N of its N+1 reads, divided by N.  If every read
\* returned the same whole number v with N * |v| < 2 ** 53 the result is
\* exactly v; if the reads are a strictly increasing arithmetic sequence of
\* whole numbers, each of magnitude below 2 ** 53 / N, the result is (first
\* of the last N + last of the last N) / 2.
C7_MeanOfLastN ==
    Returned =>
        LET r == FuncReads
            w == LastN(r, samples)
        IN  /\ Len(r) = samples + 1
            /\ ret[1] = FDiv(Sum(w), F(samples))
            /\ (AllEqual(r) /\ AllSmallWhole(r, samples)) => ret[1] = r[1]
            /\ (IsArithmetic(r) /\ AllSmallWhole(r, samples)) =>
                   ret[1] = FDiv(FAdd(w[1], w[samples]), F(2))

C7_Witness ==
    /\ Returned /\ samples = 3
    /\ FuncReads = <<F(0), F(1), F(2), F(3)>>
    /\ ret = <<F(2)>>

\* C8 as stated: with a sample count of 1 the result is the single reading
\* taken, and exactly one sleep is performed.
C8_AsStated ==
    (Returned /\ samples = 1) =>
        /\ Len(Sleeps) = 1
        /\ Len(FuncReads) = 1
        /\ ret[1] = FuncReads[1]

\* C8 as amended: with a sample count of 1 exactly one sleep is performed and
\* two readings are taken, one before the sleep and one after it; the result
\* is the second reading, and the first is discarded.
C8_SecondOfTwoReads ==
    (Returned /\ samples = 1) =>
        /\ Len(ops) = 3
        /\ IsRead(ops[1]) /\ IsSleep(ops[2]) /\ IsRead(ops[3])
        /\ ret[1] = ops[3].val

C8_Witness ==
    /\ Returned /\ samples = 1
    /\ Len(FuncReads) = 2 /\ FuncReads[1] = F(2) /\ FuncReads[2] = F(1)
    /\ ret = <<F(1)>>

(***************************************************************************)
(* C9.  correct_humidity, checked under SpecCalib.                         *)
(***************************************************************************)
\* min(100, 100 - 5 * (Tcorr - (Traw - (100 - Hraw) / 5)))
ClaimedHumidity(Hraw, Traw, Tcorr) ==
    LET h == FSub(F(100),
                  FMul(F(5), FSub(Tcorr, FSub(Traw, FDiv(FSub(F(100), Hraw), F(5))))))
    IN  IF FLt(F(100), h) THEN F(100) ELSE h

CallsCorrectHumidity == stack # <<>> /\ top.fn = "correct_humidity"

\* the Reading Sets a fetch in progress holds
HumidityInData ==
    {stack[k].loc.data.humidity :
        k \in {j \in 1..Len(stack) :
                  /\ stack[j].fn = "fetch"
                  /\ "data" \in DOMAIN stack[j].loc
                  /\ "humidity" \in DOMAIN stack[j].loc.data}}

\* C9: correct_humidity returns min(100, 100 - 5 * (Tcorr - (Traw -
\* (100 - Hraw) / 5))), which never exceeds 100 (it has no lower clamp), and
\* the humidity of a Reading Set never exceeds 100.
C9_HumidityCapped ==
    /\ [][CallsCorrectHumidity =>
             /\ ret' = <<ClaimedHumidity(top.loc.humidity, top.loc.temperature,
                                         top.loc.corr_temperature)>>
             /\ FLe(ret'[1], F(100))]_vars
    /\ [](\A h \in HumidityInData : FLe(h, F(100)))

C9_Witness == Returned /\ FLt(ret[1], F(0))

=============================================================================
